---- MODULE Spec2Model ----
(***************************************************************************)
(* A model of netbox/dcim/views.py: the pattern expander, the port add     *)
(* views (single device and bulk), and the console / power connect and     *)
(* disconnect views.  Strings are sequences of one-character strings, so   *)
(* that the regular expression, int() and str.format() are modelled by     *)
(* what they do to the characters.                                         *)
(***************************************************************************)
EXTENDS Integers, Sequences, FiniteSets, TLC

VARIABLES
    tmpl,      \* pattern expander: the template handed to expand_pattern, as tokens
    res,       \* pattern expander: what iterating expand_pattern(tmpl) produced
    store,     \* the object store: port rows and connection fields
    pre,       \* the object store as it was when the last request arrived
    req,       \* the last request: view, target pk, method, permission, POST data
    outcome,   \* what the last request returned to the caller
    errors,    \* the form errors the last request added (one entry per add_error)
    rt,        \* connect/disconnect round-trip tracker (history)
    shown,     \* the confirmation pages returned so far, where they are recorded (history)
    txn        \* the request in progress, where requests are served in steps

vars == <<tmpl, res, store, pre, req, outcome, errors, rt, shown, txn>>

None == "None"

(***************************************************************************)
(* Characters and decimal conversion                                       *)
(***************************************************************************)
Digits == <<"0", "1", "2", "3", "4", "5", "6", "7", "8", "9">>

IsDigit(c) == \E d \in 1..10 : Digits[d] = c

DigitVal(c) == (CHOOSE d \in 1..10 : Digits[d] = c) - 1

\* int(x) for a non-empty run of decimal digits (leading zeros allowed)
RECURSIVE int(_)
int(x) ==
    IF Len(x) = 0 THEN 0
    ELSE 10 * int(SubSeq(x, 1, Len(x) - 1)) + DigitVal(x[Len(x)])

\* "{0}".format(i) for an integer i >= 0: decimal, no padding
RECURSIVE format(_)
format(i) ==
    IF i < 10 THEN <<Digits[i + 1]>>
    ELSE format(i \div 10) \o <<Digits[(i % 10) + 1]>>

(***************************************************************************)
(* EXPANSION_PATTERN = '\[(\d+-\d+)\]' and re.split(..., maxsplit=1)       *)
(***************************************************************************)
\* the index of the first non-digit character of s at or after position i
\* (Len(s) + 1 when the digits run to the end)
RECURSIVE DigitsEnd(_, _)
DigitsEnd(s, i) ==
    IF i > Len(s) \/ ~IsDigit(s[i]) THEN i ELSE DigitsEnd(s, i + 1)

\* a non-empty run of digits from position i up to j - 1, then the character c at j
RunThen(s, i, j, c) == j > i /\ j <= Len(s) /\ s[j] = c

\* '\d+-\d+\]' from position i, the first run of digits ending before j
RangeFrom(s, i, j) == RunThen(s, i, j, "-") /\ RunThen(s, j + 1, DigitsEnd(s, j + 1), "]")

\* EXPANSION_PATTERN = '\[(\d+-\d+)\]' matches at position i of s
EXPANSION_PATTERN(s, i) == i <= Len(s) /\ s[i] = "[" /\ RangeFrom(s, i + 1, DigitsEnd(s, i + 1))

\* the split at a match starting at position i: lead, group 1, remnant
split_at(s, i, k) ==
    << SubSeq(s, 1, i - 1), SubSeq(s, i + 1, k - 1), SubSeq(s, k + 1, Len(s)) >>

\* the index of the closing bracket of the match that starts at position i
MatchEnd(s, i) == DigitsEnd(s, DigitsEnd(s, i + 1) + 1)

\* the leftmost position at which the regular expression matches, 0 for none
RECURSIVE FirstMatch(_, _)
FirstMatch(s, i) ==
    IF i > Len(s) THEN 0 ELSE IF EXPANSION_PATTERN(s, i) THEN i ELSE FirstMatch(s, i + 1)

split_first(s, i) == IF i = 0 THEN <<s>> ELSE split_at(s, i, MatchEnd(s, i))

\* re.split(EXPANSION_PATTERN, s, maxsplit=1): <<lead, pattern, remnant>> at the
\* leftmost match, and the one-element <<s>> when nothing matches
re_split(s) == split_first(s, FirstMatch(s, 1))

\* pattern.split('-') of a 'digits-digits' group
split_dash(p) ==
    LET j == DigitsEnd(p, 1) IN << SubSeq(p, 1, j - 1), SubSeq(p, j + 1, Len(p)) >>

(***************************************************************************)
(* expand_pattern: a generator.  Its value here is what iterating it to    *)
(* the end gives: the strings yielded, and whether the iteration ended in  *)
(* the ValueError of the three-way unpacking of a one-element split.       *)
(***************************************************************************)
Yielded(out) == [raised |-> FALSE, out |-> out]
Raised(out)  == [raised |-> TRUE, out |-> out]

\* a plausible slip: range(int(x), int(y)), the upper bound left out
range_last_exclusive(x, y) == int(y) - 1

\* range(int(x), int(y) + 1): the last value the loop takes
range_last(x, y) == int(y)

\* "{0}{1}{2}".format(lead, i, string) for every string the recursive call yields
with_lead(prefix, sub) ==
    [raised |-> sub.raised, out |-> [n \in 1..Len(sub.out) |-> prefix \o sub.out[n]]]

\* one pass of the loop followed by the remaining passes: an exception ends the iteration
followed_by(cur, rest) ==
    IF cur.raised THEN cur ELSE [raised |-> rest.raised, out |-> cur.out \o rest.out]

RECURSIVE expand_pattern(_)

\* 'for i in range(int(x), int(y) + 1):' and its body
for_range(lead, first, last, remnant) ==
    LET loop[i \in first..(last + 1)] ==
            IF i > last THEN Yielded(<<>>)
            ELSE followed_by(IF remnant # <<>>
                             THEN with_lead(lead \o format(i), expand_pattern(remnant))
                             ELSE Yielded(<< lead \o format(i) >>),
                             loop[i + 1])
    IN  IF first > last THEN Yielded(<<>>) ELSE loop[first]

\* 'lead, pattern, remnant = re.split(...)' and 'x, y = pattern.split(-)'
unpack(parts) ==
    IF Len(parts) # 3 THEN Raised(<<>>)
    ELSE for_range(parts[1],
                   int(split_dash(parts[2])[1]),
                   range_last(split_dash(parts[2])[1], split_dash(parts[2])[2]),
                   parts[3])

expand_pattern(string) == unpack(re_split(string))

(***************************************************************************)
(* Templates the model feeds to the expander: sequences of tokens, each a  *)
(* literal text or one bracketed range.  A range token carries its text    *)
(* and the two integers the text spells.                                   *)
(***************************************************************************)
Lit(text) == [kind |-> "lit", text |-> text, lo |-> 0, hi |-> 0]
Rng(text, lo, hi) == [kind |-> "range", text |-> text, lo |-> lo, hi |-> hi]

LitE     == Lit(<<"e">>)
LitSlash == Lit(<<"/">>)
LitTail  == Lit(<<"/", "x">>)
LitOpen  == Lit(<<"[">>)
R0_1     == Rng(<<"[", "0", "-", "1", "]">>, 0, 1)
R0_2     == Rng(<<"[", "0", "-", "2", "]">>, 0, 2)
R1_11    == Rng(<<"[", "1", "-", "1", "1", "]">>, 1, 11)
R5_2     == Rng(<<"[", "5", "-", "2", "]">>, 5, 2)

Tokens == {LitE, LitSlash, LitTail, LitOpen, R0_1, R0_2, R1_11, R5_2}

\* the longest template, in tokens
MaxTokens == 3

Templates == UNION {[1..n -> Tokens] : n \in 1..MaxTokens}

\* the text of a template
RECURSIVE Render(_)
Render(t) == IF Len(t) = 0 THEN <<>> ELSE t[1].text \o Render(Tail(t))

\* res before the expander has run, and after
NoResult == [ran |-> FALSE, raised |-> FALSE, out |-> <<>>]

Result(r) == [ran |-> TRUE, raised |-> r.raised, out |-> r.out]

(***************************************************************************)
(* The object store.  A port row is identified by its kind, its device and *)
(* its name; console ports and power ports carry the reference to their    *)
(* partner and the connection status; an interface connection is the pair  *)
(* of its interface_a and interface_b.                                     *)
(***************************************************************************)
Kinds == {"consoleport", "consoleserverport", "powerport", "poweroutlet", "interface"}

Devices == {"d1", "d2"}

\* a primary key no Device row has
NoSuchDevice == "d0"

Row(kind, device, name) == [kind |-> kind, device |-> device, name |-> name]

\* the unset reference of a port (cs_port / power_outlet is NULL)
Null == [kind |-> "null", device |-> None, name |-> <<>>]

Unlinked == [peer |-> Null, connection_status |-> None]

\* the rows of one kind
OfKind(ports, kind) == {p \in ports : p.kind = kind}

\* the connection fields of the console ports and power ports among rows
NewLinks(rows) ==
    [p \in {q \in rows : q.kind \in {"consoleport", "powerport"}} |-> Unlinked]

EmptyStore == [devices |-> Devices, ports |-> {}, link |-> NewLinks({}), conns |-> {}]

\* no request is in progress
Idle == [pc |-> "idle"]

\* the history variables of the specifications that do not use them
\* the confirmation pages are not recorded
NotRecorded == [on |-> FALSE, pages |-> {}]

HistoryAtRest ==
    /\ shown = NotRecorded
    /\ txn = Idle

\* a primary key no port row has
NoSuchPort == Row("none", NoSuchDevice, <<>>)

\* the round-trip tracker at rest
NoTrack == [phase |-> "none", port |-> NoSuchPort, partner |-> NoSuchPort,
            before |-> EmptyStore]

NoRequest == [view |-> "none", pk |-> None, method |-> None, perm |-> FALSE, data |-> None]

Request(view, pk, method, perm, data) ==
    [view |-> view, pk |-> pk, method |-> method, perm |-> perm, data |-> data]

\* what a request leaves behind: the store, and the response with its form errors
Response(st, out, errs) == [store |-> st, outcome |-> out, errors |-> errs]

(***************************************************************************)
(* The pattern expander on its own                                         *)
(***************************************************************************)
InitExpand ==
    /\ tmpl \in Templates
    /\ res = NoResult
    /\ store = EmptyStore
    /\ pre = EmptyStore
    /\ req = NoRequest
    /\ outcome = None
    /\ errors = <<>>
    /\ rt = NoTrack
    /\ HistoryAtRest

\* list(expand_pattern(tmpl)): the generator is iterated to its end
Expand ==
    /\ res = NoResult
    /\ res' = Result(expand_pattern(Render(tmpl)))
    /\ UNCHANGED <<tmpl, store, pre, req, outcome, errors, rt, shown, txn>>

NextExpand == Expand

SpecExpand == InitExpand /\ [][NextExpand]_vars

(***************************************************************************)
(* The port add views.  consoleport_add, consoleserverport_add,            *)
(* powerport_add, poweroutlet_add and interface_add are the same code for  *)
(* five models (interface_add also copies form_factor, mgmt_only and       *)
(* description into every row, which no check looks at).                   *)
(***************************************************************************)
Methods == {"GET", "POST"}

\* the name_pattern values the add requests carry
T_e01   == <<LitE, R0_1>>
T_e02   == <<LitE, R0_2>>
T_twice == <<R1_11, R1_11>>
T_desc  == <<LitE, R5_2>>
T_plain == <<LitE>>
T_blank == <<>>

AddTemplates == {T_e01, T_e02, T_twice, T_desc, T_plain, T_blank}

\* the cleaned name_pattern of each create form: the field expands the
\* submitted template once with the pattern expander
Cleaned == [t \in AddTemplates |-> expand_pattern(Render(t))]

\* *CreateForm(request.POST).is_valid(): a blank name_pattern is a missing field
CreateForm_is_valid(t) == t # T_blank

\* <Port>Form({'device': ..., 'name': ...}).is_valid(): the name must be new
\* among the ports of that kind on that device
PortForm_is_valid(st, row) == row \notin st.ports

\* "Duplicate ... name for this device: {}".format(name)
DuplicateName(row) == [name |-> row.name, device |-> row.device]

\* the rows the loop appends: <Port>Form.save(commit=False) of every valid name
valid_objs(st, rows) ==
    LET ok(row) == PortForm_is_valid(st, row) IN SelectSeq(rows, ok)

\* a plausible slip: leave the loop at the first duplicate, reporting only that one
first_error_only(st, rows) ==
    LET bad(row) == ~PortForm_is_valid(st, row)
        found    == SelectSeq(rows, bad)
    IN  IF found = <<>> THEN <<>> ELSE << DuplicateName(found[1]) >>

\* the form errors the loop adds: one add_error per invalid name, in order
name_errors(st, rows) ==
    LET bad(row) == ~PortForm_is_valid(st, row)
        found    == SelectSeq(rows, bad)
    IN  [i \in 1..Len(found) |-> DuplicateName(found[i])]

\* 'for name in form.cleaned_data[name_pattern]' for one device: every pass tests
\* its name against the store, which no pass changes; the results are added to
\* what `start` holds
check_names(st, kind, device, names, start) ==
    LET rows == [i \in 1..Len(names) |-> Row(kind, device, names[i])] IN
    [objs |-> start.objs \o valid_objs(st, rows),
     errs |-> start.errs \o name_errors(st, rows)]

NothingChecked == [objs |-> <<>>, errs |-> <<>>]

\* a plausible slip: the model without its unique (device, name) constraint
bulk_create_unconstrained(st, objs) == TRUE

\* <Model>.objects.bulk_create(objs): one INSERT in one transaction; the
\* store's unique (kind, device, name) constraint fails it as a whole
bulk_create_ok(st, objs) ==
    /\ \A i \in 1..Len(objs) : objs[i] \notin st.ports
    /\ \A i, j \in 1..Len(objs) : i # j => objs[i] # objs[j]

bulk_create(st, objs) ==
    LET rows == {objs[i] : i \in 1..Len(objs)} IN
    [st EXCEPT
        !.ports = st.ports \cup rows,
        !.link  = [p \in DOMAIN st.link \cup DOMAIN NewLinks(rows) |->
                      IF p \in DOMAIN st.link THEN st.link[p] ELSE Unlinked]]

\* 'if not form.errors:' then bulk_create and the success message
commit(st, checked) ==
    IF checked.errs # <<>> THEN Response(st, "form", checked.errs)
    ELSE IF bulk_create_ok(st, checked.objs)
         THEN Response(bulk_create(st, checked.objs), "added", <<>>)
         ELSE Response(st, "IntegrityError", <<>>)

\* the view, for the model `kind`
port_add(st, kind, r) ==
    IF ~r.perm THEN Response(st, "login", <<>>)
    ELSE IF r.pk \notin st.devices THEN Response(st, "404", <<>>)
    ELSE IF r.method = "POST" /\ CreateForm_is_valid(r.data)
         THEN IF Cleaned[r.data].raised THEN Response(st, "ValueError", <<>>)
              ELSE commit(st, check_names(st, kind, r.pk, Cleaned[r.data].out,
                                          NothingChecked))
         ELSE Response(st, "form", <<>>)

\* InterfaceBulkAddView.update_objects(pk_list, form), run by the bulk edit view
\* for a valid form: the devices of the queryset in their order, every name on each
DeviceOrder == <<"d1", "d2">>

RECURSIVE check_devices(_, _, _, _)
check_devices(st, pk_list, names, d) ==
    IF d = 0 THEN NothingChecked
    ELSE LET acc == check_devices(st, pk_list, names, d - 1) IN
         IF DeviceOrder[d] \in pk_list \cap st.devices
         THEN check_names(st, "interface", DeviceOrder[d], names, acc)
         ELSE acc

update_objects(st, r) ==
    IF ~r.perm THEN Response(st, "login", <<>>)
    ELSE IF Cleaned[r.data].raised THEN Response(st, "ValueError", <<>>)
    ELSE commit(st, check_devices(st, r.pk, Cleaned[r.data].out, Len(DeviceOrder)))

(***************************************************************************)
(* The connection views.  A console port holds the reference to its        *)
(* console server port (cs_port), a power port the one to its power outlet *)
(* (power_outlet); the views of the two families are the same code.        *)
(***************************************************************************)
Statuses == {"Planned", "Connected"}

CP1  == Row("consoleport", "d1", <<"c", "1">>)
CP2  == Row("consoleport", "d2", <<"c", "2">>)
CSP1 == Row("consoleserverport", "d1", <<"s", "1">>)
CSP2 == Row("consoleserverport", "d2", <<"s", "2">>)
PP1  == Row("powerport", "d1", <<"p", "1">>)
PO1  == Row("poweroutlet", "d2", <<"o", "1">>)

ConnPorts == {CP1, CP2, CSP1, CSP2, PP1, PO1}

PartnerKind(kind) == IF kind = "consoleport" THEN "consoleserverport" ELSE "poweroutlet"

PortKind(kind) == IF kind = "consoleserverport" THEN "consoleport" ELSE "powerport"

\* consoleserverport.connected_console / poweroutlet.connected_port: the ports
\* whose reference is q (hasattr(...) is whether there is one)
connected_to(st, q) == {p \in DOMAIN st.link : st.link[p].peer = q}

\* 'if not consoleport.cs_port' / 'if not powerport.power_outlet'
not_connected_skipped(st, p) == FALSE

not_connected(st, p) == st.link[p].peer = Null

\* a plausible slip: the reference is replaced, the status is left as it was
save_reference_only(st, p, q, s) == [st EXCEPT !.link[p].peer = q]

\* consoleport.cs_port = q; consoleport.connection_status = s; consoleport.save()
save(st, p, q, s) ==
    [st EXCEPT !.link[p] = [peer |-> q, connection_status |-> s]]

\* a plausible slip: the reference is a plain foreign key, not one-to-one
save_unconstrained(st, p, q) == TRUE

\* the store's one-to-one constraint on the reference: q has no other port
save_ok(st, p, q) == connected_to(st, q) \subseteq {p}

\* a plausible slip: the reference is cleared, the status is left
clear_reference_only(st, p) == [st EXCEPT !.link[p].peer = Null]

\* consoleport.cs_port = None; consoleport.connection_status = None; save()
clear(st, p) == [st EXCEPT !.link[p] = Unlinked]

\* ConsolePortConnectionForm / PowerPortConnectionForm (instance=port): the
\* partner is a row of the partner kind that no other port references
ConnectionForm_is_valid(st, p, data) ==
    /\ data.peer \in OfKind(st.ports, PartnerKind(p.kind))
    /\ data.connection_status \in Statuses
    /\ save_ok(st, p, data.peer)

\* ConsoleServerPortConnectionForm / PowerOutletConnectionForm: cleaned_data['port']
\* is a row of the port kind
PartnerConnectionForm_is_valid(st, q, data) ==
    /\ data.peer \in OfKind(st.ports, PortKind(q.kind))
    /\ data.connection_status \in Statuses

\* ConfirmationForm(request.POST).is_valid(): the confirm box is ticked
ConfirmationForm_is_valid(data) == data = TRUE

\* consoleport_connect and powerport_connect
port_connect(st, kind, r) ==
    IF ~r.perm THEN Response(st, "login", <<>>)
    ELSE IF r.pk \notin OfKind(st.ports, kind) THEN Response(st, "404", <<>>)
    ELSE IF r.method = "POST" /\ ConnectionForm_is_valid(st, r.pk, r.data)
         THEN Response(save(st, r.pk, r.data.peer, r.data.connection_status),
                       "connected", <<>>)
         ELSE Response(st, "form", <<>>)

\* a plausible slip: the partner side stores the default status, not the chosen one
partner_connect_default_status(st, kind, r) ==
    IF ~r.perm THEN Response(st, "login", <<>>)
    ELSE IF r.pk \notin OfKind(st.ports, kind) THEN Response(st, "404", <<>>)
    ELSE IF r.method = "POST" /\ PartnerConnectionForm_is_valid(st, r.pk, r.data)
         THEN IF save_ok(st, r.data.peer, r.pk)
              THEN Response(save(st, r.data.peer, r.pk, "Connected"), "connected", <<>>)
              ELSE Response(st, "IntegrityError", <<>>)
         ELSE Response(st, "form", <<>>)

\* consoleserverport_connect and poweroutlet_connect
partner_connect(st, kind, r) ==
    IF ~r.perm THEN Response(st, "login", <<>>)
    ELSE IF r.pk \notin OfKind(st.ports, kind) THEN Response(st, "404", <<>>)
    ELSE IF r.method = "POST" /\ PartnerConnectionForm_is_valid(st, r.pk, r.data)
         THEN IF save_ok(st, r.data.peer, r.pk)
              THEN Response(save(st, r.data.peer, r.pk, r.data.connection_status),
                            "connected", <<>>)
              ELSE Response(st, "IntegrityError", <<>>)
         ELSE Response(st, "form", <<>>)

\* a plausible slip: the port is looked up and tested before the permission is
port_disconnect_lookup_first(st, kind, r) ==
    IF r.pk \notin OfKind(st.ports, kind) THEN Response(st, "404", <<>>)
    ELSE IF not_connected(st, r.pk) THEN Response(st, "cannot_disconnect", <<>>)
    ELSE IF ~r.perm THEN Response(st, "login", <<>>)
    ELSE IF r.method = "POST" /\ ConfirmationForm_is_valid(r.data)
         THEN Response(clear(st, r.pk), "disconnected", <<>>)
         ELSE Response(st, "confirm", <<>>)

\* consoleport_disconnect and powerport_disconnect
port_disconnect(st, kind, r) ==
    IF ~r.perm THEN Response(st, "login", <<>>)
    ELSE IF r.pk \notin OfKind(st.ports, kind) THEN Response(st, "404", <<>>)
    ELSE IF not_connected(st, r.pk) THEN Response(st, "cannot_disconnect", <<>>)
    ELSE IF r.method = "POST" /\ ConfirmationForm_is_valid(r.data)
         THEN Response(clear(st, r.pk), "disconnected", <<>>)
         ELSE Response(st, "confirm", <<>>)

\* consoleserverport_disconnect and poweroutlet_disconnect
partner_disconnect(st, kind, r) ==
    IF ~r.perm THEN Response(st, "login", <<>>)
    ELSE IF r.pk \notin OfKind(st.ports, kind) THEN Response(st, "404", <<>>)
    ELSE IF connected_to(st, r.pk) = {} THEN Response(st, "cannot_disconnect", <<>>)
    ELSE IF r.method = "POST" /\ ConfirmationForm_is_valid(r.data)
         THEN Response(clear(st, CHOOSE p \in connected_to(st, r.pk) : TRUE),
                       "disconnected", <<>>)
         ELSE Response(st, "confirm", <<>>)

(***************************************************************************)
(* Requests                                                                *)
(***************************************************************************)
PortSideViews == {"consoleport_connect", "powerport_connect",
                  "consoleport_disconnect", "powerport_disconnect"}

ConnectViews == {"consoleport_connect", "powerport_connect",
                 "consoleserverport_connect", "poweroutlet_connect"}

\* the port a served connection request wrote to, and the partner of that port
Written(st, r) ==
    IF r.view \in PortSideViews THEN r.pk
    ELSE IF r.view \in ConnectViews THEN r.data.peer
    ELSE CHOOSE p \in connected_to(st, r.pk) : TRUE

\* the round-trip tracker: a connect of an unconnected port starts a round trip;
\* the confirmed disconnect of that port ends it; requests that leave the store
\* alone do not interrupt it, any other write does
Track(r, resp) ==
    IF resp.outcome = "connected" /\ store.link[Written(store, r)] = Unlinked
    THEN [phase   |-> "connected",
          port    |-> Written(store, r),
          partner |-> resp.store.link[Written(store, r)].peer,
          before  |-> store]
    ELSE IF rt.phase # "connected" THEN NoTrack
    ELSE IF resp.outcome = "disconnected" /\ Written(store, r) = rt.port
         THEN [rt EXCEPT !.phase = "round_trip"]
    ELSE IF resp.store = store THEN rt
    ELSE NoTrack

\* the most port rows the store holds when a request is issued
MaxPorts == 3

\* a request is answered: the store it leaves and the response are recorded
Answer(r, resp) ==
    /\ req' = r
    /\ pre' = store
    /\ store' = resp.store
    /\ outcome' = resp.outcome
    /\ errors' = resp.errors
    /\ rt' = Track(r, resp)
    /\ UNCHANGED <<tmpl, res, txn>>

\* a returned confirmation page is remembered as (view, pk)
Recorded(r, resp) ==
    IF shown.on /\ resp.outcome = "confirm"
    THEN [shown EXCEPT !.pages = shown.pages \cup {<<r.view, r.pk>>}]
    ELSE shown

Serve(r, resp) ==
    /\ Answer(r, resp)
    /\ shown' = Recorded(r, resp)

\* the add views are served while the store is below its size bound
Provision(r, resp) ==
    /\ Cardinality(store.ports) < MaxPorts
    /\ Serve(r, resp)

AddRequests(view) ==
    {Request(view, pk, "GET", perm, None) :
        pk \in Devices \cup {NoSuchDevice}, perm \in BOOLEAN}
    \cup
    {Request(view, x[1], "POST", x[2], t) :
        x \in (Devices \cup {NoSuchDevice}) \X BOOLEAN, t \in AddTemplates}

consoleport_add ==
    \E r \in AddRequests("consoleport_add") : Provision(r, port_add(store, "consoleport", r))

consoleserverport_add ==
    \E r \in AddRequests("consoleserverport_add") :
        Provision(r, port_add(store, "consoleserverport", r))

powerport_add ==
    \E r \in AddRequests("powerport_add") : Provision(r, port_add(store, "powerport", r))

poweroutlet_add ==
    \E r \in AddRequests("poweroutlet_add") : Provision(r, port_add(store, "poweroutlet", r))

interface_add ==
    \E r \in AddRequests("interface_add") : Provision(r, port_add(store, "interface", r))

InterfaceBulkAddView ==
    \E pk_list \in SUBSET (Devices \cup {NoSuchDevice}), perm \in BOOLEAN,
       t \in AddTemplates \ {T_blank} :
        LET r == Request("interface_bulk_add", pk_list, "POST", perm, t) IN
        /\ pk_list # {}
        /\ Provision(r, update_objects(store, r))

InitAdd ==
    /\ tmpl = T_blank
    /\ res = NoResult
    /\ store = EmptyStore
    /\ pre = EmptyStore
    /\ req = NoRequest
    /\ outcome = None
    /\ errors = <<>>
    /\ rt = NoTrack
    /\ HistoryAtRest

NextAdd ==
    \/ consoleport_add
    \/ consoleserverport_add
    \/ powerport_add
    \/ poweroutlet_add
    \/ interface_add
    \/ InterfaceBulkAddView

SpecAdd == InitAdd /\ [][NextAdd]_vars

(***************************************************************************)
(* Connecting and disconnecting the ports of two devices                   *)
(***************************************************************************)
\* a request that is turned away at the door (no permission, or no such port) is
\* turned away before its body is read: it is issued once per method
TurnedAway(view, kind, body) ==
    {Request(view, pk, "GET", p, None) :
        pk \in OfKind(ConnPorts, kind) \cup {NoSuchPort}, p \in {FALSE}}
    \cup {Request(view, pk, "POST", FALSE, body) :
            pk \in OfKind(ConnPorts, kind) \cup {NoSuchPort}}
    \cup {Request(view, NoSuchPort, "GET", TRUE, None),
          Request(view, NoSuchPort, "POST", TRUE, body)}

\* a connect request for a port of `kind`, choosing among the ports of `other`
ConnectRequests(view, kind, other) ==
    TurnedAway(view, kind, [peer |-> NoSuchPort, connection_status |-> "Connected"])
    \cup {Request(view, pk, "GET", TRUE, None) : pk \in OfKind(ConnPorts, kind)}
    \cup {Request(view, x[1], "POST", TRUE, [peer |-> x[2], connection_status |-> x[3]]) :
            x \in OfKind(ConnPorts, kind)
                   \X (OfKind(ConnPorts, other) \cup {NoSuchPort}) \X Statuses}

DisconnectRequests(view, kind) ==
    TurnedAway(view, kind, TRUE)
    \cup {Request(view, pk, "GET", TRUE, None) : pk \in OfKind(ConnPorts, kind)}
    \cup {Request(view, x[1], "POST", TRUE, x[2]) :
            x \in OfKind(ConnPorts, kind) \X BOOLEAN}

consoleport_connect ==
    \E r \in ConnectRequests("consoleport_connect", "consoleport", "consoleserverport") :
        Serve(r, port_connect(store, "consoleport", r))

consoleport_disconnect ==
    \E r \in DisconnectRequests("consoleport_disconnect", "consoleport") :
        Serve(r, port_disconnect(store, "consoleport", r))

consoleserverport_connect ==
    \E r \in ConnectRequests("consoleserverport_connect", "consoleserverport", "consoleport") :
        Serve(r, partner_connect(store, "consoleserverport", r))

consoleserverport_disconnect ==
    \E r \in DisconnectRequests("consoleserverport_disconnect", "consoleserverport") :
        Serve(r, partner_disconnect(store, "consoleserverport", r))

powerport_connect ==
    \E r \in ConnectRequests("powerport_connect", "powerport", "poweroutlet") :
        Serve(r, port_connect(store, "powerport", r))

powerport_disconnect ==
    \E r \in DisconnectRequests("powerport_disconnect", "powerport") :
        Serve(r, port_disconnect(store, "powerport", r))

poweroutlet_connect ==
    \E r \in ConnectRequests("poweroutlet_connect", "poweroutlet", "powerport") :
        Serve(r, partner_connect(store, "poweroutlet", r))

poweroutlet_disconnect ==
    \E r \in DisconnectRequests("poweroutlet_disconnect", "poweroutlet") :
        Serve(r, partner_disconnect(store, "poweroutlet", r))

\* the ports exist, no one of them was ever connected
InitConn ==
    /\ tmpl = T_blank
    /\ res = NoResult
    /\ store = [EmptyStore EXCEPT !.ports = ConnPorts, !.link = NewLinks(ConnPorts)]
    /\ pre = store
    /\ req = NoRequest
    /\ outcome = None
    /\ errors = <<>>
    /\ rt = NoTrack
    /\ HistoryAtRest

NextConn ==
    \/ consoleport_connect
    \/ consoleport_disconnect
    \/ consoleserverport_connect
    \/ consoleserverport_disconnect
    \/ powerport_connect
    \/ powerport_disconnect
    \/ poweroutlet_connect
    \/ poweroutlet_disconnect

SpecConn == InitConn /\ [][NextConn]_vars

(***************************************************************************)
(* Interface connections: a row of its own with interface_a and            *)
(* interface_b                                                             *)
(***************************************************************************)
IF1 == Row("interface", "d1", <<"e", "0">>)
IF2 == Row("interface", "d1", <<"e", "1">>)
IF3 == Row("interface", "d2", <<"e", "0">>)
IF4 == Row("interface", "d2", <<"e", "1">>)

Interfaces == {IF1, IF2, IF3, IF4}

Conn(a, b) == [interface_a |-> a, interface_b |-> b]

\* a primary key no InterfaceConnection row has
NoSuchConn == Conn(NoSuchPort, NoSuchPort)

\* interface.is_connected: the connections the interface is an endpoint of
connections_of(st, i) == {c \in st.conns : c.interface_a = i \/ c.interface_b = i}

\* the errors of InterfaceConnectionForm(device, request.POST): interface_a is an
\* interface of the device, interface_b an interface, the two differ, and the
\* store's constraint that an interface is in one connection at most surfaces as
\* a validation error on the field
InterfaceConnectionForm_errors(st, device, data) ==
    LET taken(i) == i \in st.ports /\ connections_of(st, i) # {}
        bad_a == \/ data.interface_a \notin OfKind(st.ports, "interface")
                 \/ data.interface_a.device # device
                 \/ taken(data.interface_a)
        bad_b == \/ data.interface_b \notin OfKind(st.ports, "interface")
                 \/ data.interface_b = data.interface_a
                 \/ taken(data.interface_b)
    IN  (IF bad_a THEN << [field |-> "interface_a", value |-> data.interface_a] >> ELSE <<>>)
        \o (IF bad_b THEN << [field |-> "interface_b", value |-> data.interface_b] >> ELSE <<>>)

\* form.save(): the InterfaceConnection row is inserted
save_connection(st, data) == [st EXCEPT !.conns = st.conns \cup {data}]

\* a plausible slip: form.save() without 'if form.is_valid()'
connection_add_unvalidated(st, r) ==
    IF ~r.perm THEN Response(st, "login", <<>>)
    ELSE IF r.pk \notin st.devices THEN Response(st, "404", <<>>)
    ELSE IF r.method = "POST"
         THEN Response(save_connection(st, r.data), "interfaces_connected", <<>>)
         ELSE Response(st, "form", <<>>)

\* interfaceconnection_add
connection_add(st, r) ==
    IF ~r.perm THEN Response(st, "login", <<>>)
    ELSE IF r.pk \notin st.devices THEN Response(st, "404", <<>>)
    ELSE IF r.method = "POST"
         THEN IF InterfaceConnectionForm_errors(st, r.pk, r.data) = <<>>
              THEN Response(save_connection(st, r.data), "interfaces_connected", <<>>)
              ELSE Response(st, "form", InterfaceConnectionForm_errors(st, r.pk, r.data))
         ELSE Response(st, "form", <<>>)

\* interfaceconnection.delete()
delete_connection(st, c) == [st EXCEPT !.conns = st.conns \ {c}]

\* interfaceconnection_delete
connection_delete(st, r) ==
    IF ~r.perm THEN Response(st, "login", <<>>)
    ELSE IF r.pk \notin st.conns THEN Response(st, "404", <<>>)
    ELSE IF r.method = "POST" /\ ConfirmationForm_is_valid(r.data)
         THEN Response(delete_connection(st, r.pk), "deleted", <<>>)
         ELSE Response(st, "confirm", <<>>)

ConnectionAddRequests ==
    {Request("interfaceconnection_add", pk, "GET", FALSE, None) :
        pk \in Devices \cup {NoSuchDevice}}
    \cup {Request("interfaceconnection_add", pk, "POST", FALSE, Conn(IF1, IF3)) :
            pk \in Devices \cup {NoSuchDevice}}
    \cup {Request("interfaceconnection_add", NoSuchDevice, "GET", TRUE, None),
          Request("interfaceconnection_add", NoSuchDevice, "POST", TRUE, Conn(IF1, IF3))}
    \cup {Request("interfaceconnection_add", pk, "GET", TRUE, None) : pk \in Devices}
    \cup {Request("interfaceconnection_add", x[1], "POST", TRUE, Conn(x[2], x[3])) :
            x \in Devices \X (Interfaces \cup {NoSuchPort}) \X (Interfaces \cup {NoSuchPort})}

ConnectionDeleteRequests(conns) ==
    {Request("interfaceconnection_delete", NoSuchConn, "GET", p, None) : p \in BOOLEAN}
    \cup {Request("interfaceconnection_delete", NoSuchConn, "POST", p, TRUE) : p \in BOOLEAN}
    \cup {Request("interfaceconnection_delete", pk, "GET", p, None) :
            pk \in conns, p \in BOOLEAN}
    \cup {Request("interfaceconnection_delete", pk, "POST", FALSE, TRUE) : pk \in conns}
    \cup {Request("interfaceconnection_delete", x[1], "POST", TRUE, x[2]) :
            x \in conns \X BOOLEAN}

interfaceconnection_add ==
    \E r \in ConnectionAddRequests : Serve(r, connection_add(store, r))

\* the caller names a connection that exists, or one that does not
interfaceconnection_delete ==
    \E r \in ConnectionDeleteRequests(store.conns) : Serve(r, connection_delete(store, r))

\* two devices with two interfaces each, none of them connected
InitIface ==
    /\ tmpl = T_blank
    /\ res = NoResult
    /\ store = [EmptyStore EXCEPT !.ports = Interfaces]
    /\ pre = store
    /\ req = NoRequest
    /\ outcome = None
    /\ errors = <<>>
    /\ rt = NoTrack
    /\ HistoryAtRest

NextIface ==
    \/ interfaceconnection_add
    \/ interfaceconnection_delete

SpecIface == InitIface /\ [][NextIface]_vars

(***************************************************************************)
(* What the specification expects of the expander, stated on the tokens of *)
(* a template and independently of the recursion above.                    *)
(***************************************************************************)
\* the decimal text of the integers the range tokens can take
Decimal(n) ==
    CASE n = 0 -> <<"0">>  [] n = 1 -> <<"1">>  [] n = 2 -> <<"2">>
      [] n = 3 -> <<"3">>  [] n = 4 -> <<"4">>  [] n = 5 -> <<"5">>
      [] n = 6 -> <<"6">>  [] n = 7 -> <<"7">>  [] n = 8 -> <<"8">>
      [] n = 9 -> <<"9">>  [] n = 10 -> <<"1", "0">>  [] n = 11 -> <<"1", "1">>

HasRange(t) == \E i \in 1..Len(t) : t[i].kind = "range"

AllRangesAscending(t) == \A i \in 1..Len(t) : t[i].kind = "range" => t[i].lo <= t[i].hi

SomeRangeDescending(t) == \E i \in 1..Len(t) : t[i].kind = "range" /\ t[i].lo > t[i].hi

RangeSize(tok) == IF tok.kind = "range" THEN tok.hi - tok.lo + 1 ELSE 1

\* the product of the sizes of the ranges of t from token i on
RECURSIVE SizeFrom(_, _)
SizeFrom(t, i) == IF i > Len(t) THEN 1 ELSE RangeSize(t[i]) * SizeFrom(t, i + 1)

\* the k-th string (k from 0) of the nested loops over the ranges of t, the
\* leftmost range varying slowest: range i takes lo + (k div weight) mod size,
\* its weight being the product of the sizes of the ranges to its right
RECURSIVE NestedLoopString(_, _, _)
NestedLoopString(t, k, i) ==
    IF i > Len(t) THEN <<>>
    ELSE LET piece == IF t[i].kind = "lit" THEN t[i].text
                      ELSE Decimal(t[i].lo + ((k \div SizeFrom(t, i + 1)) % RangeSize(t[i])))
         IN  piece \o NestedLoopString(t, k, i + 1)

MatchesNestedLoops(t, out) ==
    /\ Len(out) = SizeFrom(t, 1)
    /\ \A k \in 1..Len(out) : out[k] = NestedLoopString(t, k - 1, 1)

\* C5: a template of k >= 1 ranges, each with lo <= hi, that ends with the closing
\* bracket of its last range expands to exactly the product of the range sizes,
\* in nested-loop order (each range ascending, the leftmost slowest).
C5_ProductInNestedLoopOrder ==
    (res.ran /\ HasRange(tmpl) /\ AllRangesAscending(tmpl) /\ tmpl[Len(tmpl)].kind = "range")
        => (~res.raised /\ MatchesNestedLoops(tmpl, res.out))

\* C5 witness: '[0-1]/[0-2]' has been expanded to its six strings, outer range slowest
C5_Witness ==
    /\ res.ran
    /\ tmpl = <<R0_1, LitSlash, R0_2>>
    /\ res.out = << <<"0", "/", "0">>, <<"0", "/", "1">>, <<"0", "/", "2">>,
                    <<"1", "/", "0">>, <<"1", "/", "1">>, <<"1", "/", "2">> >>

\* C6: a template with no bracket expression expands to the one-element sequence
\* holding the template unchanged.
C6_NoBracketYieldsTemplate ==
    (res.ran /\ ~HasRange(tmpl))
        => (~res.raised /\ res.out = << Render(tmpl) >>)

\* C7: when literal text follows the last range, every combination is produced
\* with the trailing text kept at the end of each string.
C7_TrailingLiteralKept ==
    (res.ran /\ HasRange(tmpl) /\ AllRangesAscending(tmpl) /\ tmpl[Len(tmpl)].kind = "lit")
        => (~res.raised /\ MatchesNestedLoops(tmpl, res.out))

\* C8: a template with a range whose low exceeds its high is rejected with an
\* error: its expansion does not end normally with an empty sequence.
C8_DescendingRangeRejected ==
    (res.ran /\ SomeRangeDescending(tmpl)) => res.raised

(***************************************************************************)
(* Provisioning: what the last request was, and what it did                *)
(***************************************************************************)
AddViews == {"consoleport_add", "consoleserverport_add", "powerport_add",
             "poweroutlet_add", "interface_add"}

KindOfView(view) ==
    CASE view = "consoleport_add"       -> "consoleport"
      [] view = "consoleserverport_add" -> "consoleserverport"
      [] view = "powerport_add"         -> "powerport"
      [] view = "poweroutlet_add"       -> "poweroutlet"
      [] view = "interface_add"         -> "interface"

\* the last request submitted a batch of expanded names for one existing device
SingleBatch ==
    /\ req.view \in AddViews
    /\ req.perm
    /\ req.pk \in Devices
    /\ req.method = "POST"
    /\ req.data # T_blank
    /\ ~Cleaned[req.data].raised

\* the last request submitted a batch of expanded names for a set of devices
BulkBatch ==
    /\ req.view = "interface_bulk_add"
    /\ req.perm
    /\ ~Cleaned[req.data].raised

Names == Cleaned[req.data].out

\* the row each expanded name of a single-device batch asks for
Wanted == {Row(KindOfView(req.view), req.pk, Names[i]) : i \in 1..Len(Names)}

\* how often x occurs in the sequence q
Occurrences(q, x) == Cardinality({i \in 1..Len(q) : q[i] = x})

HasRepeat(q) == \E i, j \in 1..Len(q) : i < j /\ q[i] = q[j]

\* C1: a single-device batch with at least one name that already exists on the
\* device leaves the store as it was; a batch none of whose names exists has
\* every one of its names persisted (and nothing else).
C1_AllOrNothing ==
    SingleBatch =>
        IF Wanted \cap pre.ports # {}
        THEN store = pre
        ELSE store.ports = pre.ports \cup Wanted

\* C1, on batches whose names are pairwise distinct
C1_AllOrNothingOfDistinctNames ==
    (SingleBatch /\ ~HasRepeat(Names)) =>
        IF Wanted \cap pre.ports # {}
        THEN store = pre
        ELSE store.ports = pre.ports \cup Wanted

\* C2: when a single-device batch is rejected, the errors name exactly the expanded
\* names that exist already: every error is for a name of the batch that collides,
\* every colliding entry of the batch has its one error, no other entry has any.
C2_ReportsExactlyTheCollisions ==
    (SingleBatch /\ outcome # "added") =>
        /\ store = pre
        /\ \A k \in 1..Len(errors) :
              /\ errors[k].device = req.pk
              /\ \E i \in 1..Len(Names) : Names[i] = errors[k].name
        /\ \A i \in 1..Len(Names) :
              Occurrences([k \in 1..Len(errors) |-> errors[k].name], Names[i])
                  = IF Row(KindOfView(req.view), req.pk, Names[i]) \in pre.ports
                    THEN Occurrences(Names, Names[i])
                    ELSE 0

\* C2 witness: 'e[0-2]' was submitted for a device that held e0 and e1: two errors,
\* none for e2
C2_Witness ==
    /\ SingleBatch
    /\ req.data = T_e02
    /\ outcome = "form"
    /\ errors = << [name |-> <<"e", "0">>, device |-> req.pk],
                   [name |-> <<"e", "1">>, device |-> req.pk] >>
    /\ Row(KindOfView(req.view), req.pk, <<"e", "2">>) \notin store.ports

\* C3: a batch that holds the same name twice, none of its names existing yet, is
\* rejected as a duplicate-name error: the form is shown again with an error for
\* the repeated name, and nothing is persisted.
C3_RepeatInBatchReported ==
    (SingleBatch /\ HasRepeat(Names) /\ Wanted \cap pre.ports = {}) =>
        /\ store = pre
        /\ outcome = "form"
        /\ \A i, j \in 1..Len(Names) :
              (i < j /\ Names[i] = Names[j]) =>
                  \E k \in 1..Len(errors) : errors[k].name = Names[i]

\* the (device, position) pairs of a bulk batch whose interface exists already
Selected == req.pk \cap Devices

CollidingPairs ==
    {x \in Selected \X (1..Len(Names)) : Row("interface", x[1], Names[x[2]]) \in pre.ports}

\* C4: a bulk batch with a colliding (device, name) pair creates no interface on
\* any selected device and has one error per colliding pair; a bulk batch with no
\* colliding pair creates |devices| x |names| interfaces.
C4_BulkAllOrNothing ==
    BulkBatch =>
        IF CollidingPairs # {}
        THEN /\ store = pre
             /\ Len(errors) = Cardinality(CollidingPairs)
        ELSE Cardinality(store.ports \ pre.ports) = Cardinality(Selected) * Len(Names)

\* C4, on batches whose names are pairwise distinct
C4_BulkAllOrNothingOfDistinctNames ==
    (BulkBatch /\ ~HasRepeat(Names)) =>
        IF CollidingPairs # {}
        THEN /\ store = pre
             /\ Len(errors) = Cardinality(CollidingPairs)
        ELSE Cardinality(store.ports \ pre.ports) = Cardinality(Selected) * Len(Names)

(***************************************************************************)
(* Deleting ports, devices and interface connections                       *)
(***************************************************************************)
\* what the store does on port.delete(): the row goes; a reference to a deleted
\* console server port or power outlet is cleared; the interface connections of
\* a deleted interface go with it
delete_row_only(st, rows) == [st EXCEPT !.ports = st.ports \ rows]

delete_ports(st, rows) ==
    [st EXCEPT
        !.ports = st.ports \ rows,
        !.link  = [p \in DOMAIN st.link \ rows |->
                      IF st.link[p].peer \in rows
                      THEN [st.link[p] EXCEPT !.peer = Null]
                      ELSE st.link[p]],
        !.conns = {c \in st.conns : c.interface_a \notin rows /\ c.interface_b \notin rows}]

\* a plausible slip: the row is deleted on every POST, confirmed or not
port_delete_unconfirmed(st, kind, r) ==
    IF ~r.perm THEN Response(st, "login", <<>>)
    ELSE IF r.pk \notin OfKind(st.ports, kind) THEN Response(st, "404", <<>>)
    ELSE IF r.method = "POST"
         THEN Response(delete_ports(st, {r.pk}), "deleted", <<>>)
         ELSE Response(st, "confirm", <<>>)

\* consoleport_delete, consoleserverport_delete, powerport_delete,
\* poweroutlet_delete and interface_delete
port_delete(st, kind, r) ==
    IF ~r.perm THEN Response(st, "login", <<>>)
    ELSE IF r.pk \notin OfKind(st.ports, kind) THEN Response(st, "404", <<>>)
    ELSE IF r.method = "POST" /\ ConfirmationForm_is_valid(r.data)
         THEN Response(delete_ports(st, {r.pk}), "deleted", <<>>)
         ELSE Response(st, "confirm", <<>>)

PortsOf(st, d) == {p \in st.ports : p.device = d}

\* device.delete() raises ProtectedError: a port of the device takes part in a
\* connection
protected(st, d) ==
    \E p \in PortsOf(st, d) :
        \/ p \in DOMAIN st.link /\ st.link[p].peer # Null
        \/ connected_to(st, p) # {}
        \/ connections_of(st, p) # {}

\* device.delete(): the device goes, and its ports with it
delete_device(st, d) ==
    [delete_ports(st, PortsOf(st, d)) EXCEPT !.devices = st.devices \ {d}]

\* device_delete
device_delete_view(st, r) ==
    IF ~r.perm THEN Response(st, "login", <<>>)
    ELSE IF r.pk \notin st.devices THEN Response(st, "404", <<>>)
    ELSE IF r.method = "POST" /\ ConfirmationForm_is_valid(r.data)
         THEN IF protected(st, r.pk)
              THEN Response(st, "ProtectedError", <<>>)
              ELSE Response(delete_device(st, r.pk), "deleted", <<>>)
         ELSE Response(st, "confirm", <<>>)

\* the rows of the deletion scenario: a console pair, a power pair, and one
\* interface on each device
DelPorts == {CP1, CSP1, PP1, PO1, IF1, IF3}

\* a request to a view that asks for confirmation, for one of the objects pks
ConfirmedRequests(view, pks, none) ==
    {Request(view, none, "GET", p, None) : p \in BOOLEAN}
    \cup {Request(view, none, "POST", p, TRUE) : p \in BOOLEAN}
    \cup {Request(view, pk, "GET", FALSE, None) : pk \in pks}
    \cup {Request(view, pk, "POST", FALSE, TRUE) : pk \in pks}
    \cup {Request(view, pk, "GET", TRUE, None) : pk \in pks}
    \cup {Request(view, x[1], "POST", TRUE, x[2]) : x \in pks \X BOOLEAN}

DeleteRequests(view, kind) ==
    ConfirmedRequests(view, OfKind(DelPorts, kind), NoSuchPort)

consoleport_delete ==
    \E r \in DeleteRequests("consoleport_delete", "consoleport") :
        Serve(r, port_delete(store, "consoleport", r))

consoleserverport_delete ==
    \E r \in DeleteRequests("consoleserverport_delete", "consoleserverport") :
        Serve(r, port_delete(store, "consoleserverport", r))

powerport_delete ==
    \E r \in DeleteRequests("powerport_delete", "powerport") :
        Serve(r, port_delete(store, "powerport", r))

poweroutlet_delete ==
    \E r \in DeleteRequests("poweroutlet_delete", "poweroutlet") :
        Serve(r, port_delete(store, "poweroutlet", r))

interface_delete ==
    \E r \in DeleteRequests("interface_delete", "interface") :
        Serve(r, port_delete(store, "interface", r))

device_delete ==
    \E r \in ConfirmedRequests("device_delete", Devices, NoSuchDevice) :
        Serve(r, device_delete_view(store, r))

\* the console pair connected, the power pair planned, the two interfaces connected
DelStore ==
    [devices |-> Devices,
     ports   |-> DelPorts,
     link    |-> (CP1 :> [peer |-> CSP1, connection_status |-> "Connected"])
                 @@ (PP1 :> [peer |-> PO1, connection_status |-> "Planned"]),
     conns   |-> {Conn(IF1, IF3)}]

InitDel ==
    /\ tmpl = T_blank
    /\ res = NoResult
    /\ store = DelStore
    /\ pre = store
    /\ req = NoRequest
    /\ outcome = None
    /\ errors = <<>>
    /\ rt = NoTrack
    /\ HistoryAtRest

NextDel ==
    \/ consoleport_disconnect
    \/ consoleserverport_disconnect
    \/ powerport_disconnect
    \/ poweroutlet_disconnect
    \/ consoleport_delete
    \/ consoleserverport_delete
    \/ powerport_delete
    \/ poweroutlet_delete
    \/ interface_delete
    \/ device_delete
    \/ interfaceconnection_delete

SpecDel == InitDel /\ [][NextDel]_vars

(***************************************************************************)
(* Editing a port: the edit views save a new name                          *)
(***************************************************************************)
\* the row a port becomes under a new name
Renamed(row, name) == [row EXCEPT !.name = name]

\* the row x after `old` has become `new`
Follow(x, old, new) == IF x = old THEN new ELSE x

\* ConsolePortForm(request.POST, instance=port).is_valid(): the name is not the
\* name of another port of that kind on the device
EditForm_is_valid(st, row, data) == Renamed(row, data.name) \notin st.ports \ {row}

\* form.save() of the edit: the row keeps its primary key, so the references to it
\* and its own connection fields stay with it
save_edit(st, old, new) ==
    [st EXCEPT
        !.ports = (st.ports \ {old}) \cup {new},
        !.link  = [p \in {Follow(q, old, new) : q \in DOMAIN st.link} |->
                      LET was == IF p = new /\ old \in DOMAIN st.link THEN old ELSE p
                      IN  [st.link[was] EXCEPT !.peer = Follow(st.link[was].peer, old, new)]],
        !.conns = {Conn(Follow(c.interface_a, old, new), Follow(c.interface_b, old, new)) :
                      c \in st.conns}]

\* consoleport_edit, consoleserverport_edit, powerport_edit, poweroutlet_edit and
\* interface_edit
port_edit(st, kind, r) ==
    IF ~r.perm THEN Response(st, "login", <<>>)
    ELSE IF r.pk \notin OfKind(st.ports, kind) THEN Response(st, "404", <<>>)
    ELSE IF r.method = "POST" /\ EditForm_is_valid(st, r.pk, r.data)
         THEN Response(save_edit(st, r.pk, Renamed(r.pk, r.data.name)), "modified", <<>>)
         ELSE Response(st, "form", <<>>)

\* the names an edit submits: one that is free, and ones other rows have
EditNames == {<<"x">>, <<"e", "0">>, <<"e", "1">>}

EditRequests(view, kind) ==
    {Request(view, pk, "GET", p, None) :
        pk \in OfKind(DelPorts, kind) \cup {NoSuchPort}, p \in BOOLEAN}
    \cup {Request(view, x[1], "POST", x[2], [name |-> x[3]]) :
            x \in (OfKind(DelPorts, kind) \cup {NoSuchPort}) \X BOOLEAN \X EditNames}

consoleport_edit ==
    \E r \in EditRequests("consoleport_edit", "consoleport") :
        Serve(r, port_edit(store, "consoleport", r))

consoleserverport_edit ==
    \E r \in EditRequests("consoleserverport_edit", "consoleserverport") :
        Serve(r, port_edit(store, "consoleserverport", r))

powerport_edit ==
    \E r \in EditRequests("powerport_edit", "powerport") :
        Serve(r, port_edit(store, "powerport", r))

poweroutlet_edit ==
    \E r \in EditRequests("poweroutlet_edit", "poweroutlet") :
        Serve(r, port_edit(store, "poweroutlet", r))

interface_edit ==
    \E r \in EditRequests("interface_edit", "interface") :
        Serve(r, port_edit(store, "interface", r))

(***************************************************************************)
(* Every mutating view, for one request to a store                         *)
(***************************************************************************)
\* the stores a request is put to: nothing provisioned yet; the rows of the
\* deletion scenario before anything was connected; the same with every pair
\* connected
GateStores ==
    {EmptyStore,
     [EmptyStore EXCEPT !.ports = DelPorts, !.link = NewLinks(DelPorts)],
     DelStore}

InitGate ==
    /\ tmpl = T_blank
    /\ res = NoResult
    /\ store \in GateStores
    /\ pre = store
    /\ req = NoRequest
    /\ outcome = None
    /\ errors = <<>>
    /\ rt = NoTrack
    /\ HistoryAtRest

\* the first request to the store
First(view) == req = NoRequest /\ view

NextGate ==
    \/ First(consoleport_add)
    \/ First(consoleserverport_add)
    \/ First(powerport_add)
    \/ First(poweroutlet_add)
    \/ First(interface_add)
    \/ First(InterfaceBulkAddView)
    \/ First(consoleport_connect)
    \/ First(consoleserverport_connect)
    \/ First(powerport_connect)
    \/ First(poweroutlet_connect)
    \/ First(consoleport_disconnect)
    \/ First(consoleserverport_disconnect)
    \/ First(powerport_disconnect)
    \/ First(poweroutlet_disconnect)
    \/ First(consoleport_edit)
    \/ First(consoleserverport_edit)
    \/ First(powerport_edit)
    \/ First(poweroutlet_edit)
    \/ First(interface_edit)
    \/ First(consoleport_delete)
    \/ First(consoleserverport_delete)
    \/ First(powerport_delete)
    \/ First(poweroutlet_delete)
    \/ First(interface_delete)
    \/ First(device_delete)
    \/ First(interfaceconnection_add)
    \/ First(interfaceconnection_delete)

SpecGate == InitGate /\ [][NextGate]_vars

(***************************************************************************)
(* The device view: the base name of a device and its related devices      *)
(***************************************************************************)
LowerCase == {"a", "b", "c", "d", "e", "f", "g", "h", "i", "j", "k", "l", "m",
              "n", "o", "p", "q", "r", "s", "t", "u", "v", "w", "x", "y", "z"}

\* [a-z]
IsLower(c) == c \in LowerCase

\* str.lower(), on the characters the names are made of
lower(s) == [i \in 1..Len(s) |-> IF s[i] = "A" THEN "a" ELSE IF s[i] = "B" THEN "b" ELSE s[i]]

\* s[i..] is one or more digits up to the end: [0-9]+$ at i
DigitsToEnd(s, i) == i <= Len(s) /\ \A j \in i..Len(s) : IsDigit(s[j])

\* re.match('.+[0-9]+$', s)
ends_in_digits(s) == \E i \in 2..Len(s) : DigitsToEnd(s, i)

\* re.match('(.*?)[0-9]+$', s).group(1): the shortest prefix that digits follow
\* up to the end
strip_digits(s) ==
    LET i == CHOOSE k \in 1..Len(s) :
                 DigitsToEnd(s, k) /\ \A h \in 1..(k - 1) : ~DigitsToEnd(s, h)
    IN  SubSeq(s, 1, i - 1)

\* re.match('.+\d[a-z]+$', s)
digit_then_letters(s) ==
    \E i \in 2..(Len(s) - 1) :
        IsDigit(s[i]) /\ \A j \in (i + 1)..Len(s) : IsLower(s[j])

\* re.match('(.*\d+)[a-z]$', s) is not None
digits_then_letter(s) ==
    Len(s) >= 2 /\ IsLower(s[Len(s)]) /\ IsDigit(s[Len(s) - 1])

\* base_name = None
NoBase == [has |-> FALSE, text |-> <<>>]

Base(text) == [has |-> TRUE, text |-> text]

\* lines 399-409: the base name, or the AttributeError of None.group(1)
base_name(name) ==
    IF name = <<>> THEN [raised |-> FALSE, base |-> NoBase]
    ELSE IF ends_in_digits(name)
         THEN [raised |-> FALSE, base |-> Base(strip_digits(name))]
    ELSE IF digit_then_letters(lower(name))
         THEN IF digits_then_letter(lower(name))
              THEN [raised |-> FALSE,
                    base |-> Base(SubSeq(lower(name), 1, Len(name) - 1))]
              ELSE [raised |-> TRUE, base |-> NoBase]
    ELSE [raised |-> FALSE, base |-> NoBase]

\* the names of the other devices in the store
Inventory == { <<"a">>, <<"a", "3">>, <<"A", "3", "b">>, <<"-", "3">> }

\* name__istartswith=base
istartswith(n, text) ==
    Len(n) >= Len(text) /\ SubSeq(lower(n), 1, Len(text)) = lower(text)

\* 'if base_name:' then the devices whose name starts with it, this one excluded
related_devices(name, base) ==
    IF base.has /\ base.text # <<>>
    THEN {n \in Inventory \ {name} : istartswith(n, base.text)}
    ELSE {}

\* the characters of a device name: lower case, upper case, a digit, another
NameChars == {"a", "B", "3", "-"}

\* the longest device name
MaxName == 4

DeviceNames == UNION {[1..n -> NameChars] : n \in 0..MaxName}

InitDevice ==
    /\ tmpl \in DeviceNames
    /\ res = NoResult
    /\ store = EmptyStore
    /\ pre = EmptyStore
    /\ req = NoRequest
    /\ outcome = None
    /\ errors = <<>>
    /\ rt = NoTrack
    /\ HistoryAtRest

\* device(request, pk) for the device named tmpl
device_view ==
    /\ ~res.ran
    /\ res' = [ran     |-> TRUE,
               raised  |-> base_name(tmpl).raised,
               base    |-> base_name(tmpl).base,
               out     |-> related_devices(tmpl, base_name(tmpl).base)]
    /\ UNCHANGED <<tmpl, store, pre, req, outcome, errors, rt, shown, txn>>

NextDevice == device_view

SpecDevice == InitDevice /\ [][NextDevice]_vars

(***************************************************************************)
(* The two phases of a disconnect or delete: the confirmation pages that   *)
(* were returned are recorded, for three of the views                      *)
(***************************************************************************)
InitConfirm ==
    /\ tmpl = T_blank
    /\ res = NoResult
    /\ store = DelStore
    /\ pre = store
    /\ req = NoRequest
    /\ outcome = None
    /\ errors = <<>>
    /\ rt = NoTrack
    /\ shown = [on |-> TRUE, pages |-> {}]
    /\ txn = Idle

NextConfirm ==
    \/ powerport_disconnect
    \/ consoleport_delete
    \/ interfaceconnection_delete

SpecConfirm == InitConfirm /\ [][NextConfirm]_vars

(***************************************************************************)
(* Connections: what the last request was, and what it did                 *)
(***************************************************************************)
\* the last request reached a disconnect view: its sender may change the port, and
\* the port exists
PortSideDisconnect ==
    /\ req.view \in {"consoleport_disconnect", "powerport_disconnect"}
    /\ req.perm
    /\ req.pk \in pre.ports

PartnerSideDisconnect ==
    /\ req.view \in {"consoleserverport_disconnect", "poweroutlet_disconnect"}
    /\ req.perm
    /\ req.pk \in pre.ports

\* C9: a disconnect of a port whose reference is unset, or of a partner port that
\* no port references, is answered 'cannot disconnect' and leaves the store as it
\* was, for the GET call and for the confirmed POST call alike.
C9_NotConnectedIsReported ==
    /\ (PortSideDisconnect /\ pre.link[req.pk].peer = Null)
           => (outcome = "cannot_disconnect" /\ store = pre)
    /\ (PartnerSideDisconnect /\ \A p \in DOMAIN pre.link : pre.link[p].peer # req.pk)
           => (outcome = "cannot_disconnect" /\ store = pre)

\* C9 witness: a confirmed POST to consoleport_disconnect for a console port that
\* is not connected was answered 'cannot disconnect'
C9_Witness ==
    /\ PortSideDisconnect
    /\ req.view = "consoleport_disconnect"
    /\ req.method = "POST"
    /\ req.data = TRUE
    /\ pre.link[req.pk].peer = Null
    /\ outcome = "cannot_disconnect"

\* C10: when an unconnected port P was connected to a partner Q with a status s
\* and then disconnected by a confirmed request from either side, P has no
\* reference and no status, nothing is connected to Q, and the store is what it
\* was before the connect.
C10_RoundTrip ==
    rt.phase = "round_trip" =>
        /\ store.link[rt.port] = Unlinked
        /\ \A p \in DOMAIN store.link : store.link[p].peer # rt.partner
        /\ store = rt.before

\* C10 witness: a port connected from its own side with status Planned was
\* disconnected again from the partner side
C10_Witness ==
    /\ rt.phase = "round_trip"
    /\ req.view = "consoleserverport_disconnect"
    /\ req.pk = rt.partner
    /\ rt.port.kind = "consoleport"
    /\ outcome = "disconnected"

\* the last request asked to connect a port to a partner of the complementary
\* kind with a status: its sender may change ports, and both rows exist
ConnectAsked ==
    /\ req.view \in ConnectViews
    /\ req.perm
    /\ req.method = "POST"
    /\ req.pk \in pre.ports
    /\ req.data.peer \in pre.ports

AskedPort == IF req.view \in PortSideViews THEN req.pk ELSE req.data.peer

AskedPartner == IF req.view \in PortSideViews THEN req.data.peer ELSE req.pk

\* the same connection asked for from the other side
FromOtherSide ==
    IF req.view \in PortSideViews
    THEN partner_connect(pre, AskedPartner.kind,
             Request("partner side", AskedPartner, "POST", TRUE,
                     [peer |-> AskedPort, connection_status |-> req.data.connection_status]))
    ELSE port_connect(pre, AskedPort.kind,
             Request("port side", AskedPort, "POST", TRUE,
                     [peer |-> AskedPartner, connection_status |-> req.data.connection_status]))

\* the store before the request with P's reference set to Q and P's status to s
WithPOnQ ==
    [pre EXCEPT !.link[AskedPort] =
        [peer |-> AskedPartner, connection_status |-> req.data.connection_status]]

\* C12 as stated: for every port P, partner Q and status s, the connect from the
\* port side and the connect from the partner side end in the same store, in
\* which P's reference is Q and P's status is s, both stored on P.
C12_EitherSideEndsWithPOnQ ==
    ConnectAsked => (store = WithPOnQ /\ FromOtherSide.store = store)

\* C12 amended: the same, for every partner Q that no other port references;
\* when another port references Q, both connects leave the store as it was.
C12_EitherSideEndsWithPOnFreeQ ==
    ConnectAsked =>
        /\ FromOtherSide.store = store
        /\ IF \E p \in DOMAIN pre.link : p # AskedPort /\ pre.link[p].peer = AskedPartner
           THEN store = pre
           ELSE store = WithPOnQ /\ outcome = "connected"

\* C12 witness: poweroutlet_connect on the outlet, choosing the power port with
\* status Planned, stored the reference and the status on the power port
C12_Witness ==
    /\ ConnectAsked
    /\ req.view = "poweroutlet_connect"
    /\ req.data.connection_status = "Planned"
    /\ pre.link[PP1] = Unlinked
    /\ store.link[PP1] = [peer |-> PO1, connection_status |-> "Planned"]


(***************************************************************************)
(* Interface connections: what the last request was, and what it did       *)
(***************************************************************************)
\* the last request submitted a connection to interfaceconnection_add: its sender
\* may add connections and the device exists
ConnectionSubmitted ==
    /\ req.view = "interfaceconnection_add"
    /\ req.perm
    /\ req.pk \in pre.devices
    /\ req.method = "POST"

\* x was, before the last request, an endpoint of a connection to an interface
\* other than y
ConnectedElsewhere(x, y) ==
    \E c \in pre.conns :
        \/ c.interface_a = x /\ c.interface_b # y
        \/ c.interface_b = x /\ c.interface_a # y

\* C11: every interface is an endpoint of at most one interface connection; and
\* an interfaceconnection_add naming an interface that is already connected to a
\* different interface is answered with a validation error, adds no connection
\* and leaves the existing ones as they were.
C11_OneConnectionPerInterface ==
    /\ \A i \in Interfaces :
          Cardinality({c \in store.conns : c.interface_a = i \/ c.interface_b = i}) <= 1
    /\ \A c \in store.conns : c.interface_a # c.interface_b
    /\ (/\ ConnectionSubmitted
        /\ \/ ConnectedElsewhere(req.data.interface_a, req.data.interface_b)
           \/ ConnectedElsewhere(req.data.interface_b, req.data.interface_a))
           => (outcome = "form" /\ errors # <<>> /\ store = pre)

\* C11 witness: with e0 of d1 connected to e0 of d2, a request to connect e1 of
\* d1 (free) to e0 of d2 (connected as interface_b) was refused on interface_b
C11_Witness ==
    /\ ConnectionSubmitted
    /\ req.data = Conn(IF2, IF3)
    /\ Conn(IF1, IF3) \in pre.conns
    /\ outcome = "form"
    /\ errors = << [field |-> "interface_b", value |-> IF3] >>
    /\ store.conns = {Conn(IF1, IF3)}

(***************************************************************************)
(* Disconnects and deletes: what the last request was, and what it did     *)
(***************************************************************************)
DisconnectViews == {"consoleport_disconnect", "consoleserverport_disconnect",
                    "powerport_disconnect", "poweroutlet_disconnect"}

DeleteViews == {"consoleport_delete", "consoleserverport_delete", "powerport_delete",
                "poweroutlet_delete", "interface_delete", "device_delete",
                "interfaceconnection_delete"}

\* the last request carried a valid confirmation: a POST with the box ticked
CarriedConfirmation == req.method = "POST" /\ req.data = TRUE

\* C13: a request to a disconnect or delete view that carries no valid
\* confirmation (a GET, or a POST whose confirmation form is invalid) leaves the
\* store as it was; the store changes only on a POST with a valid confirmation.
C13_NoConfirmationNoChange ==
    (req.view \in DisconnectViews \cup DeleteViews /\ ~CarriedConfirmation)
        => store = pre

\* C13 witness: a permitted POST to consoleserverport_delete with an invalid
\* confirmation form, for a console server port a console port is connected to,
\* was answered with the confirmation page
C13_Witness ==
    /\ req.view = "consoleserverport_delete"
    /\ req.perm
    /\ req.method = "POST"
    /\ req.data = FALSE
    /\ req.pk = CSP1
    /\ pre.link[CP1].peer = CSP1
    /\ outcome = "confirm"
    /\ CSP1 \in store.ports

\* C19: a connection never outlives an endpoint: every set reference of a console
\* port or power port names a console server port or power outlet that exists,
\* the port holding it exists, and both interfaces of every interface connection
\* exist.
C19_NoConnectionOutlivesAnEndpoint ==
    /\ \A p \in DOMAIN store.link :
          /\ p \in store.ports
          /\ store.link[p].peer # Null =>
                /\ store.link[p].peer \in store.ports
                /\ store.link[p].peer.kind = PartnerKind(p.kind)
    /\ \A c \in store.conns :
          c.interface_a \in store.ports /\ c.interface_b \in store.ports

\* C19 witness: a confirmed consoleserverport_delete of the console server port
\* that a console port was connected to
C19_Witness ==
    /\ req.view = "consoleserverport_delete"
    /\ outcome = "deleted"
    /\ pre.link[CP1].peer = CSP1
    /\ CSP1 \notin store.ports
    /\ store.link[CP1].peer = Null

\* C14: every change of the store made by a disconnect or delete view comes after
\* an earlier request for the same object that returned the confirmation page.
C14_ConfirmationPageCameFirst ==
    (req.view \in DisconnectViews \cup DeleteViews /\ store # pre)
        => \E page \in shown.pages : page[2] = req.pk

(***************************************************************************)
(* The authorization gate                                                  *)
(***************************************************************************)
MutatingViews ==
    AddViews \cup {"interface_bulk_add"} \cup ConnectViews \cup DisconnectViews
    \cup {"consoleport_edit", "consoleserverport_edit", "powerport_edit",
          "poweroutlet_edit", "interface_edit"}
    \cup DeleteViews \cup {"interfaceconnection_add"}

\* C15: a request to a mutating view whose sender the gate denies leaves the
\* store as it was and is answered with the authorization failure (the redirect
\* to the login), whatever else is wrong with it: a target that does not exist,
\* a port that is not connected, invalid data.
C15_GateComesFirst ==
    (req.view \in MutatingViews /\ ~req.perm)
        => (outcome = "login" /\ store = pre /\ errors = <<>>)

\* C15 witness: a denied, confirmed POST to consoleport_disconnect for a port that
\* does not exist was answered with the authorization failure, not with 404
C15_Witness ==
    /\ req.view = "consoleport_disconnect"
    /\ ~req.perm
    /\ req.method = "POST"
    /\ req.pk = NoSuchPort
    /\ outcome = "login"

(***************************************************************************)
(* What the specification expects of the base name                         *)
(***************************************************************************)
IsLetter(c) == c \in LowerCase \/ c \in {"A", "B"}

EndsInDigit(name) == name # <<>> /\ IsDigit(name[Len(name)])

\* the name ends in exactly one letter that a digit immediately precedes
EndsInDigitAndOneLetter(name) ==
    Len(name) >= 2 /\ IsLetter(name[Len(name)]) /\ IsDigit(name[Len(name) - 1])

\* the name without its trailing run of digits
RECURSIVE WithoutTrailingDigits(_)
WithoutTrailingDigits(name) ==
    IF EndsInDigit(name)
    THEN WithoutTrailingDigits(SubSeq(name, 1, Len(name) - 1))
    ELSE name

\* the reference rule of the base name; an empty base is no base
ReferenceBase(name) ==
    IF EndsInDigit(name)
    THEN (IF WithoutTrailingDigits(name) = <<>> THEN NoBase
          ELSE Base(WithoutTrailingDigits(name)))
    ELSE IF EndsInDigitAndOneLetter(name)
         THEN Base(SubSeq(name, 1, Len(name) - 1))
    ELSE NoBase

\* the base name the view went on with: an empty one counts as none
ComputedBase == IF res.base.has /\ res.base.text # <<>> THEN res.base ELSE NoBase

\* C16: for a name that neither ends in a digit nor ends in exactly one letter
\* preceded by a digit, the device view computes no base name, completes
\* normally and returns no related device.
C16_NoBaseNoRelatedDevices ==
    (res.ran /\ ~EndsInDigit(tmpl) /\ ~EndsInDigitAndOneLetter(tmpl))
        => (~res.raised /\ ComputedBase = NoBase /\ res.out = {})

\* C17: the base name the view computes is the one of the reference rule: the
\* name without its trailing digits if it ends in digits; else the name without
\* its last letter if it ends in one letter preceded by digits.
C17_BaseNameIsTheReference ==
    res.ran => (~res.raised /\ ComputedBase = ReferenceBase(tmpl))

(***************************************************************************)
(* The connection listings: the querysets of the three list views.  The    *)
(* listing is the queryset as the store returns it, without filter         *)
(* parameters.                                                             *)
(***************************************************************************)
CSP3 == Row("consoleserverport", "d1", <<"s", "0">>)
PP2  == Row("powerport", "d2", <<"p", "2">>)
PO2  == Row("poweroutlet", "d2", <<"o", "0">>)

ListPorts == ConnPorts \cup {CSP3, PP2, PO2} \cup Interfaces

\* device.name: the device with the smaller primary key has the greater name
device_name(d) == IF d = "d1" THEN <<"r", "2">> ELSE <<"r", "1">>

\* the collation of the characters of a name
Alphabet ==
    Digits \o <<"a", "b", "c", "d", "e", "f", "g", "h", "i", "j", "k", "l", "m",
                "n", "o", "p", "q", "r", "s", "t", "u", "v", "w", "x", "y", "z">>

Ord(c) == CHOOSE i \in 1..Len(Alphabet) : Alphabet[i] = c

\* s sorts before t, or is t
RECURSIVE text_le(_, _)
text_le(s, t) ==
    IF s = <<>> THEN TRUE
    ELSE IF t = <<>> THEN FALSE
    ELSE IF s[1] # t[1] THEN Ord(s[1]) < Ord(t[1])
    ELSE text_le(Tail(s), Tail(t))

\* ascending on (device__name, name) of the rows p and q
key_le(p, q) ==
    IF device_name(p.device) # device_name(q.device)
    THEN text_le(device_name(p.device), device_name(q.device))
    ELSE text_le(p.name, q.name)

\* the orders in which rows can be returned
Arrangements(rows) ==
    {s \in [1..Cardinality(rows) -> rows] :
        \A i, j \in 1..Cardinality(rows) : i # j => s[i] # s[j]}

\* a plausible slip: the queryset without its order_by
order_by_nothing(rows, key) == Arrangements(rows)

\* .order_by(<key>__device__name, <key>__name): the store returns the rows with
\* ascending keys, rows of equal keys in any order
order_by(rows, key) ==
    {s \in Arrangements(rows) :
        \A i, j \in 1..Cardinality(rows) : i < j => key_le(key[s[i]], key[s[j]])}

\* .filter(cs_port__isnull=False) / .filter(power_outlet__isnull=False)
isnull_False(st, kind) ==
    {p \in OfKind(DOMAIN st.link, kind) : st.link[p].peer # Null}

\* ConsoleConnectionsListView.queryset
ConsoleConnections(st) ==
    order_by(isnull_False(st, "consoleport"),
             [p \in isnull_False(st, "consoleport") |-> st.link[p].peer])

\* PowerConnectionsListView.queryset
PowerConnections(st) ==
    order_by(isnull_False(st, "powerport"),
             [p \in isnull_False(st, "powerport") |-> st.link[p].peer])

\* InterfaceConnectionsListView.queryset
InterfaceConnections(st) ==
    order_by(st.conns, [c \in st.conns |-> c.interface_a])

\* a list view answers a GET with the rows of its queryset
Listed(view, rows) ==
    /\ res' = [ran |-> TRUE, raised |-> FALSE, out |-> rows]
    /\ \E perm \in BOOLEAN : req' = Request(view, None, "GET", perm, None)
    /\ pre' = store
    /\ outcome' = "list"
    /\ UNCHANGED <<tmpl, store, errors, rt, shown, txn>>

ConsoleConnectionsListView ==
    \E rows \in ConsoleConnections(store) :
        Listed("ConsoleConnectionsListView", rows)

PowerConnectionsListView ==
    \E rows \in PowerConnections(store) :
        Listed("PowerConnectionsListView", rows)

InterfaceConnectionsListView ==
    \E rows \in InterfaceConnections(store) :
        Listed("InterfaceConnectionsListView", rows)

\* the references the connect views can have left: each console port and power
\* port is unconnected or connected to a port of the complementary kind that no
\* other port is connected to
ListLinks ==
    {l \in [OfKind(ListPorts, "consoleport") \cup OfKind(ListPorts, "powerport")
              -> {Null} \cup OfKind(ListPorts, "consoleserverport")
                        \cup OfKind(ListPorts, "poweroutlet")] :
        /\ \A p \in DOMAIN l : l[p] # Null => l[p].kind = PartnerKind(p.kind)
        /\ \A p, q \in DOMAIN l : (p # q /\ l[p] # Null) => l[p] # l[q]}

\* the interface connections interfaceconnection_add can have left: no interface
\* is in two of them
ListConns ==
    {cs \in SUBSET {Conn(a, b) : a, b \in Interfaces} :
        /\ \A c \in cs : c.interface_a # c.interface_b
        /\ \A c, d \in cs :
              c # d => {c.interface_a, c.interface_b}
                          \cap {d.interface_a, d.interface_b} = {}}

ListStores ==
    {[devices |-> Devices,
      ports   |-> ListPorts,
      link    |-> [p \in DOMAIN x[1] |->
                     IF x[1][p] = Null THEN Unlinked
                     ELSE [peer |-> x[1][p], connection_status |-> x[3]]],
      conns   |-> x[2]] : x \in ListLinks \X ListConns \X Statuses}

InitList ==
    /\ tmpl = T_blank
    /\ res = NoResult
    /\ store \in ListStores
    /\ pre = store
    /\ req = NoRequest
    /\ outcome = None
    /\ errors = <<>>
    /\ rt = NoTrack
    /\ HistoryAtRest

NextList ==
    \/ ConsoleConnectionsListView
    \/ PowerConnectionsListView
    \/ InterfaceConnectionsListView

SpecList == InitList /\ [][NextList]_vars

(***************************************************************************)
(* What the specification expects of the listings                          *)
(***************************************************************************)
ListViews ==
    {"ConsoleConnectionsListView", "PowerConnectionsListView",
     "InterfaceConnectionsListView"}

\* the active connections of the kind a list view shows
ActiveConnections(view) ==
    IF view = "ConsoleConnectionsListView"
    THEN {p \in OfKind(store.ports, "consoleport") : store.link[p].peer # Null}
    ELSE IF view = "PowerConnectionsListView"
    THEN {p \in OfKind(store.ports, "powerport") : store.link[p].peer # Null}
    ELSE store.conns

\* the listing holds each active connection once and nothing else
ExactlyTheActive ==
    /\ {res.out[i] : i \in 1..Len(res.out)} = ActiveConnections(req.view)
    /\ Len(res.out) = Cardinality(ActiveConnections(req.view))

\* the far side of a listed row: the partner of a console port or power port,
\* the interface_b of an interface connection (the interface on device_b, the
\* device the connection was made to)
FarSide(row) ==
    IF req.view = "InterfaceConnectionsListView" THEN row.interface_b
    ELSE store.link[row].peer

\* the side the rows of the listing are ordered by in the amended statement: the
\* partner of a console port or power port, the interface_a of an interface
\* connection
OrderingSide(row) ==
    IF req.view = "InterfaceConnectionsListView" THEN row.interface_a
    ELSE store.link[row].peer

\* (device name, port name) of p is not after that of q
NotAfter(p, q) ==
    \/ /\ device_name(p.device) # device_name(q.device)
       /\ text_le(device_name(p.device), device_name(q.device))
    \/ /\ device_name(p.device) = device_name(q.device)
       /\ text_le(p.name, q.name)

\* C18: each connection listing holds exactly the active connections of its
\* kind and is ordered by the far-side device name, then the far-side port name.
C18_ListedByFarSide ==
    req.view \in ListViews =>
        /\ ExactlyTheActive
        /\ \A i, j \in 1..Len(res.out) :
              i < j => NotAfter(FarSide(res.out[i]), FarSide(res.out[j]))

\* C18 as amended: each connection listing holds exactly the active connections
\* of its kind; the console and power listings are ordered by the device name
\* and name of the partner port, the interface listing by the device name and
\* name of interface_a.
C18_ListedByPartnerOrInterfaceA ==
    req.view \in ListViews =>
        /\ ExactlyTheActive
        /\ \A i, j \in 1..Len(res.out) :
              i < j => NotAfter(OrderingSide(res.out[i]), OrderingSide(res.out[j]))

\* C18 witness: the interface listing of two connections whose interface_a and
\* interface_b sort in opposite orders was returned in the order of interface_a
C18_Witness ==
    /\ req.view = "InterfaceConnectionsListView"
    /\ store.conns = {Conn(IF1, IF4), Conn(IF3, IF2)}
    /\ res.out = <<Conn(IF3, IF2), Conn(IF1, IF4)>>

(***************************************************************************)
(* Provisioning requests running side by side.  Each worker serves one     *)
(* permitted POST to an add view for devices that exist, with a valid      *)
(* name_pattern; the view runs in steps, one per query of the store: a     *)
(* pass of the loop (the uniqueness query of <Port>Form.is_valid), then    *)
(* bulk_create.  Between the steps the other worker and a read-only view   *)
(* can run.                                                                *)
(***************************************************************************)
Workers == {1, 2}

StepTemplates == {T_e01, T_e02}

\* a worker before its request arrives
NoWork ==
    [pc |-> "idle", view |-> "none", rows |-> <<>>, i |-> 0,
     objs |-> <<>>, errs |-> <<>>, k |-> 0, written |-> {}]

\* the rows the loops go through: for every selected device in the order of the
\* queryset, every name of the cleaned name_pattern
RECURSIVE rows_of(_, _, _, _)
rows_of(kind, pk_list, names, d) ==
    IF d = 0 THEN <<>>
    ELSE rows_of(kind, pk_list, names, d - 1)
         \o (IF DeviceOrder[d] \in pk_list
             THEN [i \in 1..Len(names) |-> Row(kind, DeviceOrder[d], names[i])]
             ELSE <<>>)

\* the requests of the workers: the view, the model it creates, the devices
StepRequests ==
    {[view |-> "consoleserverport_add", kind |-> "consoleserverport", pk_list |-> {d}] :
        d \in Devices}
    \cup {[view |-> "interface_add", kind |-> "interface", pk_list |-> {d}] : d \in Devices}
    \cup {[view |-> "interface_bulk_add", kind |-> "interface", pk_list |-> ds] :
            ds \in (SUBSET Devices) \ {{}}}

\* a plausible slip: one INSERT per row (obj.save() in a loop, no transaction)
insert_row_by_row(objs) == [i \in 1..Len(objs) |-> << objs[i] >>]

\* <Model>.objects.bulk_create(objs): the INSERT statements it issues, each a
\* transaction of its own: one statement for all the rows
insert_statements(objs) == << objs >>

\* the request arrives and passes the gate, the device lookup and the create
\* form; the loop is about to start
begin(w) ==
    /\ txn[w].pc = "idle"
    /\ Cardinality(store.ports) < MaxPorts
    /\ \E r \in StepRequests, t \in StepTemplates :
          txn' = [txn EXCEPT ![w] =
                    [NoWork EXCEPT !.pc = "loop", !.view = r.view, !.i = 1,
                        !.rows = rows_of(r.kind, r.pk_list \cap store.devices,
                                         Cleaned[t].out, Len(DeviceOrder))]]
    /\ UNCHANGED <<tmpl, res, store, pre, req, outcome, errors, rt, shown>>

\* one pass of the loop: <Port>Form.is_valid() queries the store as it is now;
\* the row is appended to the list, or the error is added to the form
loop_pass(w) ==
    /\ txn[w].pc = "loop"
    /\ txn[w].i <= Len(txn[w].rows)
    /\ txn' = [txn EXCEPT ![w] =
                 IF PortForm_is_valid(store, txn[w].rows[txn[w].i])
                 THEN [txn[w] EXCEPT !.i = @ + 1,
                          !.objs = Append(@, txn[w].rows[txn[w].i])]
                 ELSE [txn[w] EXCEPT !.i = @ + 1,
                          !.errs = Append(@, DuplicateName(txn[w].rows[txn[w].i]))]]
    /\ UNCHANGED <<tmpl, res, store, pre, req, outcome, errors, rt, shown>>

\* 'if not form.errors:' after the loop: the form is shown again, or bulk_create
\* is called
if_not_errors(w) ==
    /\ txn[w].pc = "loop"
    /\ txn[w].i > Len(txn[w].rows)
    /\ txn' = [txn EXCEPT ![w] =
                 IF txn[w].errs # <<>> THEN [txn[w] EXCEPT !.pc = "form"]
                 ELSE [txn[w] EXCEPT !.pc = "bulk_create", !.k = 1]]
    /\ UNCHANGED <<tmpl, res, store, pre, req, outcome, errors, rt, shown>>

\* the next INSERT of bulk_create: all its rows are persisted, or the unique
\* constraint fails it and the request ends in IntegrityError
insert(w) ==
    /\ txn[w].pc = "bulk_create"
    /\ IF bulk_create_ok(store, insert_statements(txn[w].objs)[txn[w].k])
       THEN /\ store' = bulk_create(store, insert_statements(txn[w].objs)[txn[w].k])
            /\ txn' = [txn EXCEPT ![w] =
                         [txn[w] EXCEPT
                            !.written = @ \cup
                                {insert_statements(txn[w].objs)[txn[w].k][n] :
                                   n \in 1..Len(insert_statements(txn[w].objs)[txn[w].k])},
                            !.k = @ + 1,
                            !.pc = IF txn[w].k = Len(insert_statements(txn[w].objs))
                                   THEN "added" ELSE "bulk_create"]]
       ELSE /\ store' = store
            /\ txn' = [txn EXCEPT ![w] = [txn[w] EXCEPT !.pc = "IntegrityError"]]
    /\ UNCHANGED <<tmpl, res, pre, req, outcome, errors, rt, shown>>

\* a read-only view runs between two steps: what it sees of the batch of every
\* worker, among the rows that worker has persisted
observe ==
    /\ ~res.ran
    /\ res' = [ran    |-> TRUE,
               raised |-> FALSE,
               out    |-> [w \in Workers |->
                             [batch |-> {txn[w].rows[n] : n \in 1..Len(txn[w].rows)},
                              seen  |-> store.ports \cap txn[w].written]]]
    /\ UNCHANGED <<tmpl, store, pre, req, outcome, errors, rt, shown, txn>>

InitSteps ==
    /\ tmpl = T_blank
    /\ res = NoResult
    /\ store = EmptyStore
    /\ pre = EmptyStore
    /\ req = NoRequest
    /\ outcome = None
    /\ errors = <<>>
    /\ rt = NoTrack
    /\ shown = NotRecorded
    /\ txn = [w \in Workers |-> NoWork]

NextSteps ==
    \/ \E w \in Workers : begin(w)
    \/ \E w \in Workers : loop_pass(w)
    \/ \E w \in Workers : if_not_errors(w)
    \/ \E w \in Workers : insert(w)
    \/ observe

SpecSteps == InitSteps /\ [][NextSteps]_vars

(***************************************************************************)
(* What the specification expects of concurrent provisioning               *)
(***************************************************************************)
\* the batch of a worker's request
BatchOf(w) == {txn[w].rows[n] : n \in 1..Len(txn[w].rows)}

\* C20: no observer sees a non-empty proper subset of a provisioning batch
\* persisted: at every point between the steps of the requests, the rows a
\* request has persisted are none or its whole batch, for the single-device add
\* views and for the multi-device interface add, and so is what a read-only
\* view running at that point saw.
C20_BatchVisibleWholeOrNotAtAll ==
    /\ \A w \in Workers :
          store.ports \cap txn[w].written \in {{}, BatchOf(w)}
    /\ res.ran =>
          \A w \in Workers : res.out[w].seen \in {{}, res.out[w].batch}

\* C20 witness: a read-only view ran while a multi-device interface add that
\* had persisted its four rows was finished and the other worker, whose request
\* was validated before those rows were there, had yet to call bulk_create
C20_Witness ==
    /\ res.ran
    /\ \E w, v \in Workers :
          /\ txn[w].view = "interface_bulk_add"
          /\ txn[w].pc = "added"
          /\ Cardinality(res.out[w].seen) = 4
          /\ txn[v].view = "interface_add"
          /\ txn[v].pc = "IntegrityError"
          /\ txn[v].written = {}

\* C21: no two ports of the same kind on the same device have the same name,
\* also when two add requests with overlapping names interleave and each
\* validates its names before either inserts: no row is inserted by two
\* requests, and a request that has added its rows inserted no row twice.
C21_NoRowInsertedTwice ==
    /\ \A w, v \in Workers :
          w # v => txn[w].written \cap txn[v].written = {}
    /\ \A w \in Workers :
          txn[w].pc = "added" => Cardinality(txn[w].written) = Len(txn[w].objs)

\* C21 witness: two interface_add requests for the same device validated the
\* name e0 while no such row was there; one added its rows, the other one's
\* bulk_create was refused
C21_Witness ==
    \E w, v \in Workers :
        /\ txn[w].view = "interface_add"
        /\ txn[v].view = "interface_add"
        /\ txn[w].pc = "added"
        /\ txn[v].pc = "IntegrityError"
        /\ txn[v].errs = <<>>
        /\ IF1 \in txn[w].written
        /\ \E n \in 1..Len(txn[v].objs) : txn[v].objs[n] = IF1
        /\ IF1 \in store.ports

(***************************************************************************)
(* Connecting a port that is connected already                             *)
(***************************************************************************)
\* the last request asked to connect a port P that referenced a partner Q1 to
\* another partner Q2
Superseding ==
    /\ ConnectAsked
    /\ pre.link[AskedPort].peer # Null
    /\ pre.link[AskedPort].peer # AskedPartner

\* P references Q2 with the supplied status and nothing is connected to Q1
SupersededBy ==
    /\ outcome = "connected"
    /\ store.link[AskedPort] =
          [peer |-> AskedPartner, connection_status |-> req.data.connection_status]
    /\ connected_to(store, AskedPartner) = {AskedPort}
    /\ connected_to(store, pre.link[AskedPort].peer) = {}

\* C22 as stated: connecting a port P that references Q1 to another partner Q2,
\* from either side and with no disconnect before, succeeds; afterwards P
\* references only Q2 with the supplied status and nothing is connected to Q1.
C22_ConnectSupersedes ==
    Superseding => SupersededBy

\* C22 amended: the same for a partner Q2 that no other port references; when
\* another port references Q2 the connect is refused and the store is left as
\* it was, P still referencing Q1.
C22_ConnectToFreePartnerSupersedes ==
    Superseding =>
        IF connected_to(pre, AskedPartner) = {}
        THEN SupersededBy
        ELSE store = pre /\ outcome # "connected"

\* C22 witness: consoleserverport_connect on the second console server port,
\* choosing with status Planned the console port that was connected to the
\* first one, moved the console port
C22_Witness ==
    /\ Superseding
    /\ req.view = "consoleserverport_connect"
    /\ req.pk = CSP2
    /\ req.data.peer = CP1
    /\ req.data.connection_status = "Planned"
    /\ pre.link[CP1] = [peer |-> CSP1, connection_status |-> "Connected"]
    /\ store.link[CP1] = [peer |-> CSP2, connection_status |-> "Planned"]
    /\ connected_to(store, CSP1) = {}

(***************************************************************************)
(* The connection fields of the console ports and power ports              *)
(***************************************************************************)
\* C24: in every reachable state a console port or power port has its
\* connection status set if and only if its partner reference is set: after a
\* connect or a disconnect from either side, and after the port it references
\* was deleted.
C24_StatusSetIffReferenceSet ==
    \A p \in DOMAIN store.link :
        (store.link[p].connection_status # None) <=> (store.link[p].peer # Null)

\* C25: in every reachable state a console server port is referenced by at most
\* one console port and a power outlet by at most one power port; a connect of
\* a port to a partner that another port references does not leave both
\* referencing it.
C25_OnePortPerPartner ==
    \A p, q \in DOMAIN store.link :
        (p # q /\ store.link[p].peer # Null) => store.link[p].peer # store.link[q].peer

\* C25 witness: consoleserverport_connect on a console server port that the
\* first console port references, choosing the second console port, was refused
\* and left the first console port connected and the second as it was
C25_Witness ==
    /\ ConnectAsked
    /\ req.view = "consoleserverport_connect"
    /\ req.pk = CSP1
    /\ req.data.peer = CP2
    /\ pre.link[CP1].peer = CSP1
    /\ outcome = "IntegrityError"
    /\ store.link[CP1].peer = CSP1
    /\ store.link[CP2] = pre.link[CP2]

(***************************************************************************)
(* Connection requests running side by side.  Each worker serves one       *)
(* permitted POST with a ticked confirmation to a connect, disconnect or   *)
(* edit view.  A view runs in two steps: it reads (the lookup of its       *)
(* object, the form's queries, the instance of the port it will write),    *)
(* then it assigns the fields of that instance and saves it.  Between the  *)
(* two steps the other worker can run.                                     *)
(***************************************************************************)
RacePorts == {CP1, CP2, CSP1, CSP2, PP1, PO1}

PortDisconnectViews == {"consoleport_disconnect", "powerport_disconnect"}

PartnerConnectViews == {"consoleserverport_connect", "poweroutlet_connect"}

PartnerDisconnectViews == {"consoleserverport_disconnect", "poweroutlet_disconnect"}

PortEditViews == {"consoleport_edit", "powerport_edit"}

\* the kind a port of `kind` is connected with
Complement(kind) ==
    IF kind \in {"consoleport", "powerport"} THEN PartnerKind(kind) ELSE PortKind(kind)

ViewOf(kind, what) ==
    IF kind = "consoleport" THEN "consoleport_" \o what
    ELSE IF kind = "consoleserverport" THEN "consoleserverport_" \o what
    ELSE IF kind = "powerport" THEN "powerport_" \o what
    ELSE "poweroutlet_" \o what

\* the requests of the workers: a connect from either side with the partner and
\* the status, a disconnect from either side, an edit of a console port or
\* power port that submits its name
RaceRequests ==
    {[view |-> ViewOf(x[1].kind, "connect"), pk |-> x[1],
      data |-> [peer |-> x[2], connection_status |-> x[3]]] :
        x \in {y \in RacePorts \X RacePorts \X Statuses :
                 y[2].kind = Complement(y[1].kind)}}
    \cup {[view |-> ViewOf(p.kind, "disconnect"), pk |-> p, data |-> Unlinked] :
            p \in RacePorts}
    \cup {[view |-> ViewOf(p.kind, "edit"), pk |-> p, data |-> Unlinked] :
            p \in OfKind(RacePorts, "consoleport") \cup OfKind(RacePorts, "powerport")}

\* a worker before its request arrives
NoJob ==
    [pc |-> "idle", view |-> "none", pk |-> NoSuchPort, data |-> Unlinked,
     inst |-> NoSuchPort, was |-> Unlinked, before |-> Unlinked, after |-> Unlinked]

\* the port whose row the view will save: the port itself for the port-side
\* views, cleaned_data['port'] for a partner-side connect, connected_console /
\* connected_port for a partner-side disconnect
instance_of(st, r) ==
    IF r.view \in PortSideViews \cup PortEditViews THEN r.pk
    ELSE IF r.view \in PartnerConnectViews THEN r.data.peer
    ELSE IF connected_to(st, r.pk) = {} THEN NoSuchPort
    ELSE CHOOSE p \in connected_to(st, r.pk) : TRUE

\* where the view goes after its reads: on to the save, or to an early answer
after_reads(st, r) ==
    IF r.view \in PortDisconnectViews
    THEN (IF not_connected(st, r.pk) THEN "cannot_disconnect" ELSE "loaded")
    ELSE IF r.view \in PartnerDisconnectViews
    THEN (IF connected_to(st, r.pk) = {} THEN "cannot_disconnect" ELSE "loaded")
    ELSE IF r.view \in PortEditViews
    THEN (IF EditForm_is_valid(st, r.pk, [name |-> r.pk.name]) THEN "loaded" ELSE "form")
    ELSE IF r.view \in PartnerConnectViews
    THEN (IF PartnerConnectionForm_is_valid(st, r.pk, r.data) THEN "loaded" ELSE "form")
    ELSE (IF ConnectionForm_is_valid(st, r.pk, r.data) THEN "loaded" ELSE "form")

\* the connection fields of the instance once the view has assigned to it: the
\* partner and status of a connect, None and None of a disconnect; an edit
\* assigns neither, they are as they were loaded
assigned(job) ==
    IF job.view \in PortEditViews THEN job.was
    ELSE IF job.view \in PortDisconnectViews \cup PartnerDisconnectViews THEN Unlinked
    ELSE IF job.view \in PartnerConnectViews
         THEN [peer |-> job.pk, connection_status |-> job.data.connection_status]
    ELSE job.data

\* how the request ends when its save went through
saved_as(view) ==
    IF view \in PortEditViews THEN "modified"
    ELSE IF view \in PortDisconnectViews \cup PartnerDisconnectViews THEN "disconnected"
    ELSE "connected"

\* a plausible slip: save() writes only the fields that differ from the values
\* the instance was loaded with
update_changed_fields(st, job) ==
    [peer |-> IF assigned(job).peer = job.was.peer
              THEN st.link[job.inst].peer ELSE assigned(job).peer,
     connection_status |->
              IF assigned(job).connection_status = job.was.connection_status
              THEN st.link[job.inst].connection_status
              ELSE assigned(job).connection_status]

\* instance.save() / form.save(): one UPDATE that writes every field of the row
\* from the instance
update_all_fields(st, job) == assigned(job)

\* the request arrives; the view looks its object up, the form runs its
\* queries and the instance to save is loaded
reads(w) ==
    /\ txn[w].pc = "idle"
    /\ \E r \in RaceRequests :
          txn' = [txn EXCEPT ![w] =
                    [NoJob EXCEPT
                        !.pc = after_reads(store, r), !.view = r.view, !.pk = r.pk,
                        !.data = r.data, !.inst = instance_of(store, r),
                        !.was = IF instance_of(store, r) = NoSuchPort THEN Unlinked
                                ELSE store.link[instance_of(store, r)]]]
    /\ UNCHANGED <<tmpl, res, store, pre, req, outcome, errors, rt, shown>>

\* the view assigns to the instance and saves it; the store's one-to-one
\* constraint on the reference can refuse the save
saves(w) ==
    /\ txn[w].pc = "loaded"
    /\ IF update_all_fields(store, txn[w]).peer = Null
       THEN /\ store' = clear(store, txn[w].inst)
            /\ txn' = [txn EXCEPT ![w] =
                         [txn[w] EXCEPT !.pc = saved_as(txn[w].view),
                                        !.before = store.link[txn[w].inst],
                                        !.after = Unlinked]]
       ELSE IF save_ok(store, txn[w].inst, update_all_fields(store, txn[w]).peer)
       THEN /\ store' = save(store, txn[w].inst,
                             update_all_fields(store, txn[w]).peer,
                             update_all_fields(store, txn[w]).connection_status)
            /\ txn' = [txn EXCEPT ![w] =
                         [txn[w] EXCEPT !.pc = saved_as(txn[w].view),
                                        !.before = store.link[txn[w].inst],
                                        !.after = update_all_fields(store, txn[w])]]
       ELSE /\ store' = store
            /\ txn' = [txn EXCEPT ![w] = [txn[w] EXCEPT !.pc = "IntegrityError"]]
    /\ UNCHANGED <<tmpl, res, pre, req, outcome, errors, rt, shown>>

\* the stores the requests find: nothing connected, or the first console port
\* connected to the first console server port and the power port to the outlet
RaceStores ==
    {[EmptyStore EXCEPT !.ports = RacePorts, !.link = NewLinks(RacePorts)],
     [EmptyStore EXCEPT
        !.ports = RacePorts,
        !.link = (CP1 :> [peer |-> CSP1, connection_status |-> "Connected"])
                 @@ (PP1 :> [peer |-> PO1, connection_status |-> "Planned"])
                 @@ NewLinks(RacePorts)]}

InitRace ==
    /\ tmpl = T_blank
    /\ res = NoResult
    /\ store \in RaceStores
    /\ pre = store
    /\ req = NoRequest
    /\ outcome = None
    /\ errors = <<>>
    /\ rt = NoTrack
    /\ shown = NotRecorded
    /\ txn = [w \in Workers |-> NoJob]

NextRace ==
    \/ \E w \in Workers : reads(w)
    \/ \E w \in Workers : saves(w)

SpecRace == InitRace /\ [][NextRace]_vars

(***************************************************************************)
(* What is expected of requests that run side by side                      *)
(***************************************************************************)
Ended(w) == txn[w].pc \notin {"idle", "loaded"}

\* the port a worker's connect request is for, and what it asks for it
ConnectOf(w) == txn[w].view \in ConnectViews

PortOf(w) == IF txn[w].view \in PartnerConnectViews THEN txn[w].data.peer ELSE txn[w].pk

AskedOf(w) ==
    IF txn[w].view \in PartnerConnectViews
    THEN [peer |-> txn[w].pk, connection_status |-> txn[w].data.connection_status]
    ELSE txn[w].data

C26_DisconnectClearsOnlyItsOwn ==
    \A w \in Workers :
        (txn[w].view \in PartnerDisconnectViews /\ txn[w].pc = "disconnected")
            => txn[w].before.peer = txn[w].pk

\* C27: consoleport_edit and powerport_edit leave the connection of the edited
\* port as the store held it just before the edit saved, also when a connect or
\* disconnect of that port was saved between the edit's load and its save.
C27_EditKeepsTheConnection ==
    \A w \in Workers :
        (txn[w].view \in PortEditViews /\ txn[w].pc = "modified")
            => txn[w].after = txn[w].before

====
